---- MODULE Spec2Model ----
(***************************************************************************)
(* Model of invest_heat_islands/invest/utils.py: the simulated-annealing   *)
(* calibration of the InVEST urban cooling model.                          *)
(*                                                                         *)
(* Floats are modelled as exact rationals <<n, d>> (d > 0, lowest terms).  *)
(* The external model (ucm.execute) is a black box that either raises the  *)
(* numeric-domain ValueError or writes a T_air raster into the workspace   *)
(* directory it is given; rasters are uniform fields with a value drawn    *)
(* from PredVals, tagged with the date of the invocation that wrote them.  *)
(***************************************************************************)
EXTENDS Integers, Sequences, FiniteSets, TLC

\* ------------------------------------------------------------------ bounds
NumDates == 2
NumStations == 2
MaxIters == 2

\* ------------------------------------------------------- rational numbers
Abs(n) == IF n < 0 THEN -n ELSE n

RECURSIVE GCD(_, _)
GCD(a, b) == IF b = 0 THEN a ELSE GCD(b, a % b)

Rat(n, d) ==
    LET g == GCD(Abs(n), Abs(d))
        s == IF d < 0 THEN -1 ELSE 1
    IN  IF n = 0 THEN <<0, 1>> ELSE <<(s * n) \div g, (s * d) \div g>>

Zero == <<0, 1>>
One == <<1, 1>>
\* sums over the least common denominator and products after cancelling,
\* to keep the intermediate integers small
RatAdd(a, b) ==
    LET g == GCD(a[2], b[2])
    IN  Rat(a[1] * (b[2] \div g) + b[1] * (a[2] \div g), (a[2] \div g) * b[2])
RatNeg(a) == <<-a[1], a[2]>>
RatSub(a, b) == RatAdd(a, RatNeg(b))
RatMul(a, b) ==
    LET a1 == Rat(a[1], b[2])
        b1 == Rat(b[1], a[2])
    IN  Rat(a1[1] * b1[1], a1[2] * b1[2])
RatDiv(a, b) == RatMul(a, Rat(b[2], b[1]))
RatLess(a, b) ==
    LET g == GCD(a[2], b[2])
    IN  a[1] * (b[2] \div g) < b[1] * (a[2] \div g)
RatMax(a, b) == IF RatLess(a, b) THEN b ELSE a
RatMin(a, b) == IF RatLess(b, a) THEN b ELSE a

RECURSIVE RatSum(_)
RatSum(s) == IF s = <<>> THEN Zero ELSE RatAdd(Head(s), RatSum(Tail(s)))

\* np.exp, replaced by a rational function with the properties the code
\* relies on: positive, increasing, exp(0) = 1, exp(z) < 1 for z < 0.
exp(z) ==
    LET k == IF RatLess(z, Zero) THEN RatNeg(z) ELSE z
        p == RatAdd(One, RatAdd(k, RatDiv(RatMul(k, k), <<2, 1>>)))
    IN  IF RatLess(z, Zero) THEN RatDiv(One, p) ELSE p

\* ------------------------------------------------------ module constants
\* DEFAULT_MODEL_PARAMS, in key order: t_air_average_radius,
\* green_area_cooling_distance, cc_weight_shade, cc_weight_albedo,
\* cc_weight_eti.
DEFAULT_MODEL_PARAMS == << <<500, 1>>, <<100, 1>>, <<3, 5>>, <<1, 5>>, <<1, 5>> >>

\* ------------------------------------------------------ simulated annealing
\* mutant: the shortcut for a lower cost is gone, the exponential is used
compute_accept_prob_NoShortcut(cost, cost_new, T, rescaling_coeff) ==
    exp(RatDiv(RatMul(RatNeg(rescaling_coeff), RatSub(cost_new, cost)), T))

compute_accept_prob(cost, cost_new, T, rescaling_coeff) ==
    IF RatLess(cost_new, cost)
    THEN One
    ELSE exp(RatDiv(RatMul(RatNeg(rescaling_coeff), RatSub(cost_new, cost)), T))

compute_T(fraction) == RatMax(<<1, 100>>, RatMin(One, RatSub(One, fraction)))

\* mutant: only the first two weights are renormalised (range(2, 4))
GetNeighbour_NormalisesTwo(x, u) ==
    LET x_neighbour == [k \in 1..Len(x) |-> RatMul(x[k], RatAdd(One, u[k]))]
        weight_sum == RatSum(SubSeq(x_neighbour, 3, Len(x_neighbour)))
    IN  IF weight_sum = Zero
        THEN [ok |-> FALSE, x |-> x_neighbour]
        ELSE [ok |-> TRUE,
              x |-> [k \in 1..Len(x) |->
                        IF k \in 3..4
                        THEN RatDiv(x_neighbour[k], weight_sum)
                        ELSE x_neighbour[k]]]

\* GetNeighbour.__call__(x) with the perturbation draws u (one rn.uniform
\* draw per coordinate).  ok = FALSE is the ZeroDivisionError of line 54.
GetNeighbour(x, u) ==
    LET x_neighbour == [k \in 1..Len(x) |-> RatMul(x[k], RatAdd(One, u[k]))]
        weight_sum == RatSum(SubSeq(x_neighbour, 3, Len(x_neighbour)))
    IN  IF weight_sum = Zero
        THEN [ok |-> FALSE, x |-> x_neighbour]
        ELSE [ok |-> TRUE,
              x |-> [k \in 1..Len(x) |->
                        IF k \in 3..5
                        THEN RatDiv(x_neighbour[k], weight_sum)
                        ELSE x_neighbour[k]]]

\* mutant: the loop starts at 0
loop_range_FromZero(n) == 0..n

\* simulated_annealing's loop range: range(1, num_iters + 1)
loop_range(n) == 1..n

\* the first value of i, or 0 when the range is empty and i is never bound
loop_first(n) ==
    IF loop_range(n) = {} THEN 0
    ELSE CHOOSE m \in loop_range(n) : \A k \in loop_range(n) : m <= k

\* mutant: the last accepted state is taken for the best one
argmin_last(rmses) == Len(rmses)

\* np.argmin: the first index holding the minimum
argmin(rmses) ==
    CHOOSE k \in 1..Len(rmses) :
        /\ \A j \in 1..Len(rmses) : ~RatLess(rmses[j], rmses[k])
        /\ \A j \in 1..(k - 1) : RatLess(rmses[k], rmses[j])

\* ------------------------------------------------- inputs of the session
Dates == 1..NumDates
Stations == 1..NumStations
PredVals == {1, 5}

Range(s) == {s[k] : k \in 1..Len(s)}
Orders(S) == {s \in [1..Cardinality(S) -> S] : Range(s) = S}

\* station_tair_df: one row per date (in the order of the table's rows),
\* one column per station; one reading is missing (NaN).
station_tair_df(d, s) ==
    [isnan |-> (d = NumDates /\ s = NumStations), v |-> 2 * d + s - 2]

\* self.dates = station_tair_df.index
dates == [k \in 1..NumDates |-> k]

RECURSIVE hstack(_)
hstack(arrs) == IF arrs = <<>> THEN <<>> ELSE Head(arrs) \o hstack(Tail(arrs))

\* station_tair_df.values.flatten(): row-major, one row per date
obs_flat ==
    hstack([k \in 1..NumDates |->
               [s \in 1..NumStations |->
                   [date |-> dates[k], station |-> s,
                    isnan |-> station_tair_df(dates[k], s).isnan,
                    v |-> station_tair_df(dates[k], s).v]]])

\* self.obs_mask = ~np.isnan(obs_arr)
obs_mask == [k \in 1..Len(obs_flat) |-> ~obs_flat[k].isnan]

\* arr[mask]: boolean-mask indexing
RECURSIVE MaskFrom(_, _, _)
MaskFrom(arr, mask, k) ==
    IF k > Len(arr) THEN <<>>
    ELSE (IF mask[k] THEN <<arr[k]>> ELSE <<>>) \o MaskFrom(arr, mask, k + 1)

Masked(arr, mask) == MaskFrom(arr, mask, 1)

\* self.obs_arr = obs_arr[self.obs_mask]
obs_arr == Masked(obs_flat, obs_mask)

\* sklearn.metrics.mean_squared_error
mean_squared_error(y_true, y_pred) ==
    Rat(RatSum([k \in 1..Len(y_true) |->
                   <<(y_true[k].v - y_pred[k].T) * (y_true[k].v - y_pred[k].T), 1>>])[1],
        Len(y_true))

\* mutant: every invocation works in self.workspace_dir itself
WorkspaceDir_Shared(d) == 0

\* path.join(self.workspace_dir, str(date)); 0 is self.workspace_dir itself
WorkspaceDir(d) == d
Dirs == 0..NumDates
NoFile == [date |-> 0, T |-> 0]

\* predict_T_stations: the raster read back, at the station pixels
predict_T_stations(raster) ==
    [s \in 1..NumStations |-> [date |-> raster.date, station |-> s, T |-> raster.T]]

\* perturbation draws of one GetNeighbour call, in tenths (stepsize 0.3:
\* rn.uniform(-0.3, 0.3) lies in [-3/10, 3/10))
DrawVectors ==
    { <<-3, -3, -3, -3, -3>>, <<2, -1, 2, 0, -3>> }

uniform(u) == [k \in 1..Len(u) |-> Rat(u[k], 10)]

\* rn.random() lies in [0, 1)
RandomDraws == { <<0, 1>>, <<99, 100>> }

\* key orders of the ref_et_rasters mapping handed to the constructor: the
\* order of the observation table's rows, and the reverse of it
RefEtOrders == {dates, [k \in 1..NumDates |-> dates[NumDates + 1 - k]]}

\* the x0 argument of calibrate: None, or a vector given by the caller
X0Args ==
    { [given |-> FALSE, x |-> <<>>],
      [given |-> TRUE, x |-> << <<500, 1>>, <<100, 1>>, Zero, Zero, Zero >>] }

AcceptCoeffs == { <<2, 1>> }

\* the dates argument of predict_T_da: None, or a list of distinct dates
DatesArgs ==
    {[given |-> FALSE, dates |-> <<>>]} \cup
    {[given |-> TRUE, dates |-> o] : o \in UNION {Orders(S) : S \in SUBSET Dates \ {{}}}}

\* ------------------------------------------------------------------ state
VARIABLES
    base_args,      \* ModelWrapper.base_args: the five calibration parameters
    ref_et_keys,    \* iteration order of the keys of ref_et_filepath_dict
    fs,             \* the T_air.tif raster under each workspace directory
    pc,             \* position of the running call
    err,            \* the exception that ended the call, if any
    x0, num_iters, accept_coeff,        \* arguments of simulated_annealing
    x, cost, states, costs, i,          \* locals of simulated_annealing
    x_new, cost_new,
    draw,           \* the value rn.random() returned at line 96
    iter_args,      \* model arguments of the running fan-out
    units,          \* pred_delayed: the dates of the fan-out, in list order
    taskSt,         \* per date: none, waiting, executed, done, failed
    taskOut,        \* per date: the raster its invocation read back
    T_da,           \* the rasters predict_T_da returns
    evalLog,        \* outcome of each cost_func call so far
    rnRandomCalls,  \* number of rn.random() draws so far
    neighbourCalls  \* number of get_neighbour_func calls so far

session == <<base_args, ref_et_keys, fs>>
sa_args == <<x0, num_iters, accept_coeff>>
locals == <<sa_args, x, cost, states, costs, i, x_new, cost_new, draw>>
pool == <<iter_args, units, taskSt, taskOut>>
history == <<evalLog, rnRandomCalls, neighbourCalls>>
vars == <<session, pc, err, locals, pool, T_da, history>>

\* ModelWrapper.__init__: default model parameters, an empty workspace, and
\* a date -> raster mapping whose key order is the caller's.
Init ==
    /\ base_args = DEFAULT_MODEL_PARAMS
    /\ ref_et_keys \in RefEtOrders
    /\ fs = [dir \in Dirs |-> NoFile]
    /\ pc = "idle"
    /\ err = "none"
    /\ x0 = <<>> /\ num_iters = 0 /\ accept_coeff = Zero
    /\ x = <<>> /\ cost = Zero /\ states = <<>> /\ costs = <<>> /\ i = 0
    /\ x_new = <<>> /\ cost_new = Zero /\ draw = Zero
    /\ iter_args = <<>> /\ units = <<>>
    /\ taskSt = [d \in Dates |-> "none"]
    /\ taskOut = [d \in Dates |-> NoFile]
    /\ T_da = <<>>
    /\ evalLog = <<>> /\ rnRandomCalls = 0 /\ neighbourCalls = 0

\* dask.delayed(...) for each date of `order`, handed to dask.compute
FanOut(args, order) ==
    /\ iter_args' = args
    /\ units' = order
    /\ taskSt' = [d \in Dates |-> IF d \in Range(order) THEN "waiting" ELSE "none"]
    /\ taskOut' = [d \in Dates |-> NoFile]

\* dask.compute has returned or raised: its delayed calls are gone
FanIn ==
    /\ iter_args' = <<>>
    /\ units' = <<>>
    /\ taskSt' = [d \in Dates |-> "none"]
    /\ taskOut' = [d \in Dates |-> NoFile]

\* dask.compute's result: one entry per delayed call, in list order
preds == [k \in 1..Len(units) |-> predict_T_stations(taskOut[units[k]])]

\* mutant: the fan-in returns once no delayed call is left running
AllDone_IgnoresFailed ==
    units # <<>> /\ \A d \in Range(units) : taskSt[d] \in {"done", "failed"}

AllDone == units # <<>> /\ \A d \in Range(units) : taskSt[d] = "done"
SomeFailed == \E d \in Range(units) : taskSt[d] = "failed"

\* _params_to_rmse's return value once every delayed call has returned
params_to_rmse == mean_squared_error(obs_arr, Masked(hstack(preds), obs_mask))

\* ---------------------------------------------------------------- workers
\* dask.compute re-raises a worker's exception as soon as it arrives, so the
\* steps other workers take after a failure are taken before it here: the
\* states the fan-in can leave behind are the same.
\* predict_T_arr up to ucm.execute: the model writes its raster
RunModel(d) ==
    /\ pc \in {"cost0", "cost_new", "predict"}
    /\ ~SomeFailed
    /\ taskSt[d] = "waiting"
    /\ \E v \in PredVals :
          fs' = [fs EXCEPT ![WorkspaceDir(d)] = [date |-> d, T |-> v]]
    /\ taskSt' = [taskSt EXCEPT ![d] = "executed"]
    /\ UNCHANGED <<base_args, ref_et_keys, pc, err, locals, iter_args, units,
                   taskOut, T_da, history>>

\* ucm.execute raises the numeric-domain ValueError
RunModelFails(d) ==
    /\ pc \in {"cost0", "cost_new", "predict"}
    /\ ~SomeFailed
    /\ taskSt[d] = "waiting"
    /\ taskSt' = [taskSt EXCEPT ![d] = "failed"]
    /\ UNCHANGED <<session, pc, err, locals, iter_args, units, taskOut, T_da, history>>

\* predict_T_arr after ucm.execute: the raster is read back
ReadRaster(d) ==
    /\ pc \in {"cost0", "cost_new", "predict"}
    /\ ~SomeFailed
    /\ taskSt[d] = "executed"
    /\ taskOut' = [taskOut EXCEPT ![d] = fs[WorkspaceDir(d)]]
    /\ taskSt' = [taskSt EXCEPT ![d] = "done"]
    /\ UNCHANGED <<session, pc, err, locals, iter_args, units, T_da, history>>

\* ---------------------------------------------------------------- calibrate
\* calibrate up to the first cost evaluation of simulated_annealing
Calibrate(x0arg, n, coeff) ==
    /\ pc = "idle"
    /\ x0' = IF x0arg.given THEN x0arg.x ELSE base_args
    /\ x' = x0'
    /\ FanOut(x0', ref_et_keys)
    /\ num_iters' = n
    /\ accept_coeff' = coeff
    /\ pc' = "cost0"
    /\ UNCHANGED <<session, err, cost, states, costs, i, x_new, cost_new, draw,
                   T_da, history>>

\* cost = cost_func(x); states, costs = [x], [cost]
InitialCost ==
    /\ pc = "cost0"
    /\ AllDone
    /\ cost' = params_to_rmse
    /\ states' = <<x>>
    /\ costs' = <<params_to_rmse>>
    /\ i' = loop_first(num_iters)
    /\ pc' = "loop"
    /\ evalLog' = Append(evalLog, "ok")
    /\ FanIn
    /\ UNCHANGED <<session, err, sa_args, x, x_new, cost_new, draw,
                   T_da, rnRandomCalls, neighbourCalls>>

\* the first cost evaluation raises: nothing catches it
InitialCostRaises ==
    /\ pc = "cost0"
    /\ SomeFailed
    /\ pc' = "raised"
    /\ err' = "ValueError"
    /\ evalLog' = Append(evalLog, "ValueError")
    /\ FanIn
    /\ UNCHANGED <<session, locals, T_da, rnRandomCalls, neighbourCalls>>

\* top of an iteration: T, the neighbour, and the fan-out of its evaluation
Iterate(u) ==
    /\ pc = "loop"
    /\ i \in loop_range(num_iters)
    /\ LET nb == GetNeighbour(x, uniform(u))
       IN  IF num_iters = 0
           THEN \* fraction = i / float(num_iters)
                /\ pc' = "raised"
                /\ err' = "ZeroDivisionError"
                /\ UNCHANGED <<x_new, pool, neighbourCalls>>
           ELSE IF ~nb.ok
           THEN \* x_neighbour[k] /= weight_sum
                /\ pc' = "raised"
                /\ err' = "ZeroDivisionError"
                /\ neighbourCalls' = neighbourCalls + 1
                /\ UNCHANGED <<x_new, pool>>
           ELSE /\ x_new' = nb.x
                /\ FanOut(nb.x, ref_et_keys)
                /\ pc' = "cost_new"
                /\ err' = err
                /\ neighbourCalls' = neighbourCalls + 1
    /\ UNCHANGED <<session, sa_args, x, cost, states, costs, i,
                   cost_new, draw, T_da, evalLog, rnRandomCalls>>

\* x_new and cost_new are dead once the iteration ends: the next iteration
\* assigns both before it reads them.
EndIteration ==
    /\ x_new' = <<>>
    /\ cost_new' = Zero

\* cost_new = cost_func(x_new)
CandidateCost ==
    /\ pc = "cost_new"
    /\ AllDone
    /\ cost_new' = params_to_rmse
    /\ pc' = "accept"
    /\ evalLog' = Append(evalLog, "ok")
    /\ FanIn
    /\ UNCHANGED <<session, err, sa_args, x, cost, states, costs,
                   i, x_new, draw, T_da, rnRandomCalls, neighbourCalls>>

\* mutant: line 88's "x = x_new" is live, the failed candidate becomes current
CandidateSkip_TakesCandidate ==
    /\ pc = "cost_new"
    /\ SomeFailed
    /\ x' = x_new
    /\ i' = i + 1
    /\ pc' = "loop"
    /\ evalLog' = Append(evalLog, "ValueError")
    /\ FanIn
    /\ EndIteration
    /\ UNCHANGED <<session, err, sa_args, cost, states, costs, draw,
                   T_da, rnRandomCalls, neighbourCalls>>

\* mutant: the failed candidate is recorded in the trajectory
CandidateSkip_Appends ==
    /\ pc = "cost_new"
    /\ SomeFailed
    /\ states' = Append(states, x_new)
    /\ costs' = Append(costs, cost)
    /\ i' = i + 1
    /\ pc' = "loop"
    /\ evalLog' = Append(evalLog, "ValueError")
    /\ FanIn
    /\ EndIteration
    /\ UNCHANGED <<session, err, sa_args, x, cost, draw,
                   T_da, rnRandomCalls, neighbourCalls>>

\* except ValueError: ... continue
CandidateSkip ==
    /\ pc = "cost_new"
    /\ SomeFailed
    /\ i' = i + 1
    /\ pc' = "loop"
    /\ evalLog' = Append(evalLog, "ValueError")
    /\ FanIn
    /\ EndIteration
    /\ UNCHANGED <<session, err, sa_args, x, cost, states, costs, draw,
                   T_da, rnRandomCalls, neighbourCalls>>

\* the temperature of iteration i
T == compute_T(Rat(i, num_iters))

accept_prob == compute_accept_prob(cost, cost_new, T, accept_coeff)

\* rn.random() at line 96
Draw(r) ==
    /\ pc = "accept"
    /\ draw' = r
    /\ rnRandomCalls' = rnRandomCalls + 1
    /\ pc' = "compare"
    /\ UNCHANGED <<session, err, sa_args, x, cost, states, costs, i, x_new, cost_new,
                   pool, T_da, evalLog, neighbourCalls>>

\* the draw was read and is dead once the comparison is made
EndCompare == draw' = Zero

\* mutant: the comparison is the wrong way round
Accept_Inverted ==
    /\ pc = "compare"
    /\ RatLess(accept_prob, draw)
    /\ x' = x_new
    /\ cost' = cost_new
    /\ states' = Append(states, x_new)
    /\ costs' = Append(costs, cost_new)
    /\ i' = i + 1
    /\ pc' = "loop"
    /\ EndCompare
    /\ EndIteration
    /\ UNCHANGED <<session, err, sa_args, pool, T_da, history>>

\* accept_prob_func(...) > rn.random(): the candidate is accepted
Accept ==
    /\ pc = "compare"
    /\ RatLess(draw, accept_prob)
    /\ x' = x_new
    /\ cost' = cost_new
    /\ states' = Append(states, x_new)
    /\ costs' = Append(costs, cost_new)
    /\ i' = i + 1
    /\ pc' = "loop"
    /\ EndCompare
    /\ EndIteration
    /\ UNCHANGED <<session, err, sa_args, pool, T_da, history>>

\* the acceptance probability does not exceed the draw: nothing changes
Reject ==
    /\ pc = "compare"
    /\ ~RatLess(draw, accept_prob)
    /\ i' = i + 1
    /\ pc' = "loop"
    /\ EndCompare
    /\ EndIteration
    /\ UNCHANGED <<session, err, sa_args, x, cost, states, costs, pool, T_da, history>>

\* return states, costs; calibrate stores the minimum-cost state
Return ==
    /\ pc = "loop"
    /\ i \notin loop_range(num_iters)
    /\ base_args' = states[argmin(costs)]
    /\ pc' = "done"
    /\ UNCHANGED <<ref_et_keys, fs, err, locals, pool, T_da, history>>

\* ------------------------------------------------------------- predict_T_da
PredictTDa(arg) ==
    /\ pc = "idle"
    /\ FanOut(base_args, IF arg.given THEN arg.dates ELSE ref_et_keys)
    /\ pc' = "predict"
    /\ UNCHANGED <<session, err, locals, T_da, history>>

PredictReturn ==
    /\ pc = "predict"
    /\ AllDone
    /\ T_da' = [k \in 1..Len(units) |-> taskOut[units[k]]]
    /\ pc' = "done"
    /\ FanIn
    /\ UNCHANGED <<session, err, locals, history>>

PredictRaises ==
    /\ pc = "predict"
    /\ SomeFailed
    /\ pc' = "raised"
    /\ err' = "ValueError"
    /\ FanIn
    /\ UNCHANGED <<session, locals, T_da, history>>

Next ==
    \/ \E a \in X0Args, n \in 0..MaxIters, c \in AcceptCoeffs : Calibrate(a, n, c)
    \/ \E d \in Dates : RunModel(d)
    \/ \E d \in Dates : RunModelFails(d)
    \/ \E d \in Dates : ReadRaster(d)
    \/ InitialCost
    \/ InitialCostRaises
    \/ \E u \in DrawVectors : Iterate(u)
    \/ CandidateCost
    \/ CandidateSkip
    \/ \E r \in RandomDraws : Draw(r)
    \/ Accept
    \/ Reject
    \/ Return
    \/ \E a \in DatesArgs : PredictTDa(a)
    \/ PredictReturn
    \/ PredictRaises

Spec == Init /\ [][Next]_vars

\* ------------------------------------------------------------------ claims
Last(s) == s[Len(s)]
CalibrateCalled == x0 # <<>>
OnlyCandidatesFailed ==
    /\ evalLog # <<>>
    /\ evalLog[1] = "ok"
    /\ \A k \in 2..Len(evalLog) : evalLog[k] = "ValueError"

\* C1 as stated: when every invocation of the cost function raises the
\* ValueError, the call ends by returning a trajectory holding only x0.
C1_AlwaysFailingReturnsInitial ==
    (/\ CalibrateCalled
     /\ pc \in {"done", "raised"}
     /\ evalLog # <<>>
     /\ \A k \in 1..Len(evalLog) : evalLog[k] = "ValueError")
    => (pc = "done" /\ states = <<x0>>)

\* C1 amended: when the evaluation of x0 succeeds and every candidate
\* evaluation raises the ValueError, the trajectory is ([x0], [cost(x0)])
\* throughout and at the return, for every num_iters, and the call can then
\* only be ended early by the neighbour generator raising; when the
\* evaluation of x0 raises, the ValueError leaves simulated_annealing and no
\* trajectory exists.
C1_FailingCandidatesKeepInitial ==
    /\ (CalibrateCalled /\ OnlyCandidatesFailed)
       => /\ states = <<x0>>
          /\ costs = <<cost>>
          /\ x = x0
          /\ pc = "raised" => err = "ZeroDivisionError"
    /\ (evalLog # <<>> /\ evalLog[1] = "ValueError")
       => /\ pc = "raised"
          /\ err = "ValueError"
          /\ evalLog = <<"ValueError">>
          /\ states = <<>>
          /\ costs = <<>>

C1_Witness ==
    /\ pc = "done"
    /\ num_iters >= 2
    /\ OnlyCandidatesFailed
    /\ Len(evalLog) = num_iters + 1
    /\ states = <<x0>>

\* C2: a candidate evaluation that raises the ValueError leaves the current
\* vector, the current cost and both trajectory lists as they were, makes no
\* acceptance draw, and moves on to the next iteration; the iteration is
\* spent: a returned call has made exactly num_iters neighbour calls and
\* num_iters + 1 cost evaluations.
C2_SkipKeepsStateAndSpendsIteration ==
    /\ [][(pc = "cost_new" /\ evalLog' = Append(evalLog, "ValueError"))
          => /\ x' = x
             /\ cost' = cost
             /\ states' = states
             /\ costs' = costs
             /\ rnRandomCalls' = rnRandomCalls
             /\ i' = i + 1
             /\ pc' = "loop"
             /\ err' = err]_vars
    /\ []((pc = "loop" /\ num_iters >= 1)
          => (Len(evalLog) = i /\ neighbourCalls = i - 1))
    /\ []((pc = "done" /\ CalibrateCalled)
          => (Len(evalLog) = num_iters + 1 /\ neighbourCalls = num_iters))

C2_Witness ==
    /\ pc = "cost_new"
    /\ i = 2
    /\ evalLog = <<"ok", "ValueError">>
    /\ x = x0
    /\ states = <<x0>>
    /\ rnRandomCalls = 0

\* C3: when calibrate returns, base_args holds a state of the returned
\* trajectory whose cost no entry of the trajectory undercuts.
C3_BaseArgsIsTrajectoryMinimum ==
    (pc = "done" /\ CalibrateCalled)
    => \E k \in 1..Len(states) :
          /\ base_args = states[k]
          /\ \A j \in 1..Len(costs) : ~RatLess(costs[j], costs[k])

C3_Witness ==
    /\ pc = "done"
    /\ Len(states) >= 2
    /\ RatLess(costs[1], Last(costs))
    /\ base_args = states[1]
    /\ base_args # Last(states)

Evaluating == pc \in {"cost0", "cost_new"}

\* C4: a cost is produced only when every date's invocation has returned,
\* and it is the mean squared error over all of them; once one date's
\* invocation has failed no cost is produced, whatever the other workers
\* do, and a candidate so evaluated is skipped.
C4_CostNeedsEveryDate ==
    /\ [][(Evaluating /\ evalLog' = Append(evalLog, "ok"))
          => /\ \A d \in Dates : taskSt[d] = "done"
             /\ (IF pc = "cost0" THEN cost' ELSE cost_new')
                = mean_squared_error(
                      obs_arr,
                      Masked(hstack([k \in 1..NumDates |->
                                        predict_T_stations(taskOut[ref_et_keys[k]])]),
                             obs_mask))]_vars
    /\ [][(Evaluating /\ \E d \in Dates : taskSt[d] = "failed")
          => /\ evalLog' \in {evalLog, Append(evalLog, "ValueError")}
             /\ cost' = cost
             /\ cost_new' = cost_new
             /\ (pc = "cost_new" /\ pc' # pc)
                => /\ pc' = "loop"
                   /\ i' = i + 1
                   /\ x' = x
                   /\ states' = states
                   /\ costs' = costs]_vars

C4_Witness ==
    /\ pc = "cost_new"
    /\ \E d1, d2 \in Dates : taskSt[d1] = "failed" /\ taskSt[d2] = "done"

\* C5: at the fan-in of a cost evaluation, every position of the masked
\* flat prediction array holds the prediction of the (date, station) pair
\* whose observation is at that position of the observation array.
C5_PredictionsAlignedWithObservations ==
    (Evaluating /\ \A d \in Dates : taskSt[d] = "done")
    => LET flat == Masked(hstack(preds), obs_mask)
       IN  /\ Len(flat) = Len(obs_arr)
           /\ \A k \in 1..Len(obs_arr) :
                 /\ flat[k].date = obs_arr[k].date
                 /\ flat[k].station = obs_arr[k].station

Simplex(v) == Len(v) = 5 /\ RatAdd(v[3], RatAdd(v[4], v[5])) = One

\* draws the neighbour generator is tried on at every current vector
WeightDraws ==
    DrawVectors \cup { <<-3, 2, 2, 2, -3>>, <<2, -3, -3, 2, 2>> }

\* C6 as stated: for every input vector and every draw GetNeighbour returns
\* a vector whose last three coordinates sum to 1, and the current vector
\* has that property after every neighbour step.
C6_NeighbourAlwaysOnSimplex ==
    /\ (pc = "loop" /\ i \in 1..num_iters)
       => \A u \in WeightDraws :
             LET nb == GetNeighbour(x, uniform(u))
             IN  nb.ok /\ Simplex(nb.x)
    /\ neighbourCalls > 0 => Simplex(x)

\* C6 amended: GetNeighbour returns a vector whose last three coordinates
\* sum to 1 whenever the perturbed last three coordinates have a non-zero
\* sum, and raises ZeroDivisionError when that sum is zero; so every
\* candidate and every trajectory state after the initial one is on the
\* simplex, and so is the current vector once x0 is or a candidate has been
\* accepted.
C6_NeighbourOnSimplexUnlessZeroSum ==
    /\ (pc = "loop" /\ i \in 1..num_iters)
       => \A u \in WeightDraws :
             LET nb == GetNeighbour(x, uniform(u))
                 pert == [k \in 1..5 |-> RatMul(x[k], RatAdd(One, Rat(u[k], 10)))]
                 wsum == RatAdd(pert[3], RatAdd(pert[4], pert[5]))
             IN  IF wsum = Zero
                 THEN ~nb.ok
                 ELSE /\ nb.ok
                      /\ Simplex(nb.x)
                      /\ nb.x[1] = pert[1]
                      /\ nb.x[2] = pert[2]
                      /\ \A k \in 3..5 : RatMul(nb.x[k], wsum) = pert[k]
    /\ pc \in {"accept", "compare"} => Simplex(x_new)
    /\ pc \in {"loop", "done"} => \A k \in 2..Len(states) : Simplex(states[k])
    /\ (pc \in {"loop", "done"} /\ CalibrateCalled /\ (Simplex(x0) \/ Len(states) >= 2))
       => Simplex(x)
    /\ (err = "ZeroDivisionError" /\ num_iters >= 1)
       => RatAdd(x[3], RatAdd(x[4], x[5])) = Zero

C6_Witness ==
    \E k \in 2..Len(states) :
        /\ Simplex(states[k])
        /\ states[k][3] # x0[3]
        /\ x = states[k]

\* C7: compute_accept_prob is exactly 1 for a lower candidate cost, at any
\* temperature and with any rescaling coefficient, and a successfully
\* evaluated candidate of lower cost becomes the current state and the new
\* last entry of the trajectory whatever the draw.
C7_DownhillAlwaysAccepted ==
    /\ []((pc \in {"accept", "compare"} /\ RatLess(cost_new, cost))
          => \A Tt \in {<<1, 100>>, <<1, 2>>, One, <<5, 1>>} :
             \A c \in {<<-1, 1>>, Zero, <<2, 1>>, <<7, 2>>} :
                compute_accept_prob(cost, cost_new, Tt, c) = One)
    /\ [][(pc = "compare" /\ RatLess(cost_new, cost))
          => /\ x' = x_new
             /\ cost' = cost_new
             /\ states' = Append(states, x_new)
             /\ costs' = Append(costs, cost_new)]_vars

C7_Witness ==
    /\ pc = "compare"
    /\ RatLess(cost_new, cost)
    /\ draw = <<99, 100>>

\* C8: with num_iters = 0 and the evaluation of x0 returning, the call
\* returns the trajectory ([x0], [cost(x0)]) without error, without a
\* neighbour call, a candidate evaluation or an acceptance draw.
C8_ZeroItersReturnsInitial ==
    (CalibrateCalled /\ num_iters = 0)
    => /\ neighbourCalls = 0
       /\ rnRandomCalls = 0
       /\ Len(evalLog) <= 1
       /\ x = x0
       /\ pc \in {"cost0", "loop", "done", "raised"}
       /\ pc = "raised" => evalLog = <<"ValueError">>
       /\ pc \in {"loop", "done"}
          => (states = <<x0>> /\ costs = <<cost>> /\ evalLog = <<"ok">>)

C8_Witness ==
    /\ CalibrateCalled
    /\ num_iters = 0
    /\ pc = "done"
    /\ states = <<x0>>
    /\ base_args = x0

OkCount(log) == Cardinality({k \in 1..Len(log) : log[k] = "ok"})

\* C9: a successfully evaluated candidate gets exactly one acceptance draw;
\* when the acceptance probability exceeds the draw the candidate and its
\* cost become current and are appended, otherwise nothing changes; the
\* trajectory only grows at its end, and between iterations its last entry
\* is the current (vector, cost).
C9_AcceptAppendsRejectKeeps ==
    /\ [][pc = "accept"
          => /\ pc' = "compare"
             /\ rnRandomCalls' = rnRandomCalls + 1
             /\ <<x, cost, states, costs>>' = <<x, cost, states, costs>>]_vars
    /\ [][pc = "compare"
          => /\ pc' = "loop"
             /\ rnRandomCalls' = rnRandomCalls
             /\ IF RatLess(draw, compute_accept_prob(cost, cost_new,
                                    compute_T(Rat(i, num_iters)), accept_coeff))
                THEN /\ x' = x_new
                     /\ cost' = cost_new
                     /\ states' = Append(states, x_new)
                     /\ costs' = Append(costs, cost_new)
                ELSE <<x, cost, states, costs>>' = <<x, cost, states, costs>>]_vars
    /\ [][/\ Len(states') \in {Len(states), Len(states) + 1}
          /\ SubSeq(states', 1, Len(states)) = states
          /\ Len(costs') \in {Len(costs), Len(costs) + 1}
          /\ SubSeq(costs', 1, Len(costs)) = costs]_vars
    /\ []((pc \in {"loop", "done"} /\ CalibrateCalled)
          => /\ Len(states) = Len(costs)
             /\ Last(states) = x
             /\ Last(costs) = cost
             /\ rnRandomCalls = OkCount(evalLog) - 1)

C9_Witness ==
    /\ pc = "loop"
    /\ rnRandomCalls = 2
    /\ Len(states) = 2
    /\ Last(states) = x

\* C10: the invocations of one fan-out use pairwise different workspace
\* directories; the raster under an invocation's directory stays its own
\* until it is read, and the raster an invocation reads back is the one it
\* wrote.
C10_WorkersKeepToOwnDirectory ==
    /\ \A d1, d2 \in Range(units) :
          d1 # d2 => WorkspaceDir(d1) # WorkspaceDir(d2)
    /\ \A d \in Dates : taskSt[d] = "executed" => fs[WorkspaceDir(d)].date = d
    /\ \A d \in Dates : taskSt[d] = "done" => taskOut[d].date = d
    /\ \A k \in 1..Len(T_da) : T_da[k].date \in Dates

C10_Witness ==
    \E d1, d2 \in Dates :
        /\ d1 # d2
        /\ taskSt[d1] = "done"
        /\ taskSt[d2] = "executed"
        /\ taskOut[d1].T # fs[WorkspaceDir(d2)].T
====
